---- MODULE Spec2Model ----
(***************************************************************************)
(* Orangered-Parser: the command registry (register, deregister, clear)    *)
(* and the parse/dispatch pipeline of src/src/index.js, with the Command   *)
(* and Argument classes of src/index.js.  The register and parse that      *)
(* src/index.js exports itself, an earlier single-file form of the same    *)
(* module, are modelled apart (SpecRoot).                                  *)
(*                                                                         *)
(* JavaScript strings are sequences of one-character strings, so that      *)
(* trimming, splitting and the regular expressions are computed.  Every    *)
(* other JavaScript value is a record tagged by its type in field t.       *)
(* Objects handed to register are taken by value: resolveCommand files a   *)
(* fresh Command per key, so no filed record is shared with the caller.    *)
(*                                                                         *)
(* The host is single threaded: one API call runs to completion (pc goes   *)
(* from "ready" to "done", out holding what the call did and returned),    *)
(* then the host takes its next turn.                                      *)
(***************************************************************************)
EXTENDS Integers, Sequences, FiniteSets, TLC

VARIABLES cmdRegistry, pc, out

vars == <<cmdRegistry, pc, out>>

(***************************************************************************)
(* Bounds of the model.                                                    *)
(***************************************************************************)
MaxAliases == 2

MaxArgs == 2

MaxChecks == 2

MaxTokens == 2

(***************************************************************************)
(* JavaScript values.                                                      *)
(***************************************************************************)
Undefined == [t |-> "undefined"]

Str(s) == [t |-> "string", s |-> s]

Arr(a) == [t |-> "array", a |-> a]

Bool(b) == [t |-> "boolean", b |-> b]

Func(f) == [t |-> "function", f |-> f]

Range(a) == {a[i] : i \in DOMAIN a}

\* Numbers: finite integers, the two infinities and NaN.
Num(n) == [t |-> "number", k |-> "fin", n |-> n]

Infinity == [t |-> "number", k |-> "inf", n |-> 1]

NegInfinity == [t |-> "number", k |-> "inf", n |-> -1]

NaN == [t |-> "number", k |-> "nan", n |-> 0]

\* ToBoolean: undefined, "", false, 0 and NaN are falsy; every object is truthy.
Truthy(v) ==
    CASE v.t = "undefined" -> FALSE
      [] v.t = "string" -> v.s # <<>>
      [] v.t = "boolean" -> v.b
      [] v.t = "number" -> ~(v.k = "nan" \/ (v.k = "fin" /\ v.n = 0))
      [] OTHER -> TRUE

\* a || b
Or(a, b) == IF Truthy(a) THEN a ELSE b

(***************************************************************************)
(* Strings.                                                                *)
(***************************************************************************)
DigitSeq == <<"0", "1", "2", "3", "4", "5", "6", "7", "8", "9">>

Digits == Range(DigitSeq)

Letters ==
    {"a", "b", "c", "d", "e", "f", "g", "h", "i", "j", "k", "l", "m",
     "n", "o", "p", "q", "r", "s", "t", "u", "v", "w", "x", "y", "z",
     "A", "B", "C", "D", "E", "F", "G", "H", "I", "J", "K", "L", "M",
     "N", "O", "P", "Q", "R", "S", "T", "U", "V", "W", "X", "Y", "Z"}

\* \w
WordChars == Letters \cup Digits \cup {"_"}

\* \s
isSpace(c) == c \in {" ", "\t", "\n"}

RECURSIVE trimStart(_)
trimStart(s) == IF s # <<>> /\ isSpace(Head(s)) THEN trimStart(Tail(s)) ELSE s

RECURSIVE trimEnd(_)
trimEnd(s) ==
    IF s # <<>> /\ isSpace(s[Len(s)]) THEN trimEnd(SubSeq(s, 1, Len(s) - 1)) ELSE s

\* String.prototype.trim
trim(s) == trimEnd(trimStart(s))

\* String.prototype.indexOf for one character: zero-based, -1 when absent
indexOf(s, c) ==
    IF c \in Range(s) THEN (CHOOSE i \in DOMAIN s : s[i] = c /\ \A j \in 1..(i - 1) : s[j] # c) - 1
    ELSE -1

\* String.prototype.substr(start, length), zero-based
substr(s, start, length) ==
    SubSeq(s, start + 1, IF start + length > Len(s) THEN Len(s) ELSE start + length)

\* every character of s is in the class
allChars(s, class) == \A i \in DOMAIN s : s[i] \in class

(***************************************************************************)
(* Argument descriptors (src/index.js, class Argument and argTypes).       *)
(* cls is the class of the instance; type is the field the constructors    *)
(* set, which UserArgument and SubredditArgument inherit as "string".      *)
(***************************************************************************)
argTypeNames ==
    {"command", "custom", "duration", "generic", "integer", "string", "subreddit", "user"}

\* class Argument, constructor
Argument(argument) ==
    [t |-> "object",
     isArgument |-> TRUE,
     cls |-> "generic",
     type |-> "generic",
     key |-> argument.key,
     default |-> argument.default,
     required |-> Or(argument.required, Bool(FALSE)),
     choices |-> argument.choices]

\* class StringArgument, constructor (UserArgument and SubredditArgument only call it)
StringArgument(argument, cls) ==
    [Argument(argument) EXCEPT !.cls = cls, !.type = "string"] @@
    [min |-> Or(argument.minLength, Num(0)),
     max |-> Or(argument.maxLength, Infinity),
     matches |-> argument.matches]

\* argTypes.command, constructor
CommandArgument(argument) ==
    [Argument(argument) EXCEPT !.cls = "command", !.type = "command"] @@
    [allowAlias |-> Or(argument.allowAlias, Bool(TRUE))]

\* argTypes.custom, constructor
CustomArgument(argument) ==
    [Argument(argument) EXCEPT !.cls = "custom", !.type = "custom"] @@
    [custom |-> argument.custom]

\* argTypes.duration, constructor
DurationArgument(argument) ==
    [Argument(argument) EXCEPT !.cls = "duration", !.type = "duration"]

\* argTypes.integer, constructor
IntegerArgument(argument) ==
    [Argument(argument) EXCEPT !.cls = "integer", !.type = "integer"] @@
    [min |-> Or(argument.min, NegInfinity),
     max |-> Or(argument.max, Infinity)]

\* new argTypes[type](arg)
newArgType(type, arg) ==
    CASE type = "command" -> CommandArgument(arg)
      [] type = "custom" -> CustomArgument(arg)
      [] type = "duration" -> DurationArgument(arg)
      [] type = "generic" -> Argument(arg)
      [] type = "integer" -> IntegerArgument(arg)
      [] type = "string" -> StringArgument(arg, "string")
      [] type = "subreddit" -> StringArgument(arg, "subreddit")
      [] type = "user" -> StringArgument(arg, "user")

\* Command constructor, the callback of command.arguments.map
makeArgument(arg) ==
    IF arg.isArgument THEN arg
    ELSE IF arg.type \in argTypeNames THEN newArgType(arg.type, arg)
    ELSE newArgType("string", arg)

(***************************************************************************)
(* Command records and the registry.                                       *)
(***************************************************************************)
findName(obj) == Or(obj.name, obj.command)

\* class Command, constructor.  description and longDescription are left out:
\* nothing reads them but usage().  An instance has no property "command", so
\* reading it yields undefined.
Command(command) ==
    [t |-> "object",
     isCommand |-> TRUE,
     name |-> findName(command),
     originalName |-> Or(command.originalName, findName(command)),
     arguments |-> IF Truthy(command.arguments)
                   THEN Arr([i \in DOMAIN command.arguments.a |->
                                makeArgument(command.arguments.a[i])])
                   ELSE Arr(<<>>),
     aliases |-> Or(command.aliases, Arr(<<>>)),
     check |-> command.check,
     handler |-> command.handler,
     command |-> Undefined]

\* ./util/resolve-command.js: the record filed for a specification is a new
\* Command, which also carries the gating fields parse reads
resolveCommand(cmd) ==
    [permissionless |-> cmd.permissionless, category |-> cmd.category] @@ Command(cmd)

\* collections/map: get, set, filter
MapHas(map, key) == key \in DOMAIN map

MapSet(map, key, value) == [k \in DOMAIN map \cup {key} |-> IF k = key THEN value ELSE map[k]]

\* filter(callback): keep is the set of the values the callback accepts
MapFilter(map, keep) == [k \in {j \in DOMAIN map : map[j] \in keep} |-> map[k]]

EmptyMap == [k \in {} |-> Undefined]

\* registerSingle, the callback of alias.forEach applied to alias[i], alias[i+1], ...
RECURSIVE registerAliases(_, _, _, _, _)
registerAliases(registry, cmd, alias, name, i) ==
    IF i > Len(alias) THEN registry
    ELSE LET aname == alias[i]
             named == [cmd EXCEPT !.name = aname,
                                  !.originalName = name,
                                  !.aliases = Arr(SelectSeq(alias, LAMBDA name2 : name2 # aname))]
             cmdFixed == resolveCommand(named)
         IN  registerAliases(MapSet(registry, aname, cmdFixed), named, alias, name, i + 1)

\* registerSingle without alias.push(name): the canonical name is not filed
registerSingleNoPush(registry, cmd) ==
    LET name == Or(cmd.name, cmd.command)
    IN  IF ~Truthy(name)
        THEN [registry |-> registry, threw |-> "MISSING_COMMAND_NAME"]
        ELSE LET alias == Or(cmd.aliases, Arr(<<>>)).a
             IN  [registry |-> registerAliases(registry, cmd, alias, name, 1),
                  threw |-> "none"]

\* registerSingle with the aliases filed before the name is tested
registerSingleAliasesFirst(registry, cmd) ==
    LET name == Or(cmd.name, cmd.command)
        alias == Or(cmd.aliases, Arr(<<>>)).a
    IN  IF ~Truthy(name)
        THEN [registry |-> registerAliases(registry, cmd, alias, name, 1),
              threw |-> "MISSING_COMMAND_NAME"]
        ELSE [registry |-> registerAliases(registry, cmd, alias \o <<name>>, name, 1),
              threw |-> "none"]

\* registerSingle: the registry after the call, and what it threw
registerSingle(registry, cmd) ==
    LET name == Or(cmd.name, cmd.command)
    IN  IF ~Truthy(name)
        THEN [registry |-> registry, threw |-> "MISSING_COMMAND_NAME"]
        ELSE LET alias == Or(cmd.aliases, Arr(<<>>)).a \o <<name>>
             IN  [registry |-> registerAliases(registry, cmd, alias, name, 1),
                  threw |-> "none"]

\* register with an array: cmdOrCmds.forEach(registerSingle), from element i on;
\* a throw ends the loop
RECURSIVE registerEach(_, _, _)
registerEach(registry, cmds, i) ==
    IF i > Len(cmds) THEN [registry |-> registry, threw |-> "none"]
    ELSE LET one == registerSingle(registry, cmds[i])
         IN  IF one.threw # "none" THEN one
             ELSE registerEach(one.registry, cmds, i + 1)

(***************************************************************************)
(* Argument validation (src/index.js).  A step that can throw yields       *)
(* [val, threw]: threw is "none" or the name of the error that unwinds.    *)
(***************************************************************************)
Ok(v) == [val |-> v, threw |-> "none"]

Throw(e) == [val |-> Undefined, threw |-> e]

\* obj.k: a property the object does not have reads undefined
Get(obj, k) == IF k \in DOMAIN obj THEN obj[k] ELSE Undefined

\* obj[k] = v
Put(obj, k, v) == [j \in DOMAIN obj \cup {k} |-> IF j = k THEN v ELSE obj[j]]

\* The host's localization function knows the codes in fn.f: its text for a code
\* and a descriptor is the one-symbol string naming both; undefined otherwise.
localize(fn, code, key) == IF code \in fn.f THEN Str(<<code, key>>) ELSE Undefined

\* String.prototype.toUpperCase on the localization codes
toUpperCase(code) ==
    CASE code = "argument_required" -> "ARGUMENT_REQUIRED"
      [] code = "argument_unavailable_choice" -> "ARGUMENT_UNAVAILABLE_CHOICE"
      [] code = "string_argument_regexp_fail" -> "STRING_ARGUMENT_REGEXP_FAIL"
      [] code = "string_argument_too_long" -> "STRING_ARGUMENT_TOO_LONG"
      [] code = "string_argument_too_short" -> "STRING_ARGUMENT_TOO_SHORT"
      [] code = "user_argument_too_short" -> "USER_ARGUMENT_TOO_SHORT"
      [] code = "user_argument_too_long" -> "USER_ARGUMENT_TOO_LONG"
      [] code = "user_argument_invalid" -> "USER_ARGUMENT_INVALID"
      [] code = "subreddit_argument_too_short" -> "SUBREDDIT_ARGUMENT_TOO_SHORT"
      [] code = "subreddit_argument_too_long" -> "SUBREDDIT_ARGUMENT_TOO_LONG"
      [] code = "subreddit_argument_invalid" -> "SUBREDDIT_ARGUMENT_INVALID"
      [] code = "command_argument_not_original" -> "COMMAND_ARGUMENT_NOT_ORIGINAL"
      [] code = "command_argument_nonexistent" -> "COMMAND_ARGUMENT_NONEXISTENT"
      [] code = "duration_argument_invalid" -> "DURATION_ARGUMENT_INVALID"
      [] code = "integer_argument_invalid" -> "INTEGER_ARGUMENT_INVALID"
      [] code = "integer_argument_too_high" -> "INTEGER_ARGUMENT_TOO_HIGH"
      [] code = "integer_argument_too_low" -> "INTEGER_ARGUMENT_TOO_LOW"

\* new InvalidArgumentError(sourceArg, args, localizationCode, argument, value):
\* args.localize is called without a test that it is a function
InvalidArgumentError(sourceArg, args, localizationCode, argument, value) ==
    LET fn == Get(args, "localize")
    IN  IF fn.t # "function" THEN Throw("TypeError")
        ELSE LET localized == localize(fn, localizationCode, argument.key)
             IN  Ok([t |-> "error",
                     message |-> IF Truthy(localized) THEN localized
                                 ELSE localize(fn, "argument_invalid", argument.key),
                     code |-> toUpperCase(localizationCode),
                     sourceArg |-> sourceArg])

isError(v) == v.t = "error"

\* ToString, as String.prototype methods and RegExp.prototype.exec apply it
StringOf(v) ==
    CASE v.t = "undefined" -> <<"u", "n", "d", "e", "f", "i", "n", "e", "d">>
      [] v.t = "string" -> v.s
      [] v.t = "error" -> IF Truthy(v.message)
                          THEN <<"E", "r", "r", "o", "r", ":", " ">> \o v.message.s
                          ELSE <<"E", "r", "r", "o", "r">>

\* a >= b on numbers
Ge(a, b) ==
    CASE a.k = "nan" \/ b.k = "nan" -> FALSE
      [] a.k = "inf" /\ b.k = "inf" -> a.n >= b.n
      [] a.k = "inf" -> a.n = 1
      [] b.k = "inf" -> b.n = -1
      [] OTHER -> a.n >= b.n

\* new RegExp(source).test(str): undefined is the empty pattern, which matches
\* everything; the one other pattern of the model is ^\d+$
DigitsPattern == Str(<<"^", "\\", "d", "+", "$">>)

RegExpTest(source, str) ==
    CASE source = Undefined -> TRUE
      [] source = DigitsPattern -> str # <<>> /\ allChars(str, Digits)

\* Argument.getValue
GenericGetValue(argument, value, args) == Ok(value)

\* StringArgument.getValue
StringGetValue(argument, value, args) ==
    IF value = Undefined THEN Ok(Undefined)
    ELSE LET str == StringOf(value)
         IN  IF ~RegExpTest(argument.matches, str)
             THEN InvalidArgumentError(argument.cls, args, "string_argument_regexp_fail", argument, value)
             ELSE IF Ge(Num(Len(str)), argument.max)
             THEN InvalidArgumentError(argument.cls, args, "string_argument_too_long", argument, value)
             ELSE IF Ge(argument.min, Num(Len(str)))
             THEN InvalidArgumentError(argument.cls, args, "string_argument_too_short", argument, value)
             ELSE Ok(Str(str))

\* /(p\/)?(.*)/i.exec(string)[2]: the text after an optional leading p/ or P/
stripPrefix(string, p, P) ==
    IF Len(string) >= 2 /\ string[1] \in {p, P} /\ string[2] = "/"
    THEN SubSeq(string, 3, Len(string))
    ELSE string

\* UserArgument.getValue: the result of super.getValue goes into exec unchecked
UserGetValue(argument, value, args) ==
    LET string == StringGetValue(argument, value, args)
    IN  IF string.threw # "none" THEN string
        ELSE LET noU == stripPrefix(StringOf(string.val), "u", "U")
             IN  IF noU # <<>> /\ allChars(noU, WordChars \cup {"-"})
                 THEN IF Len(noU) < 3
                      THEN InvalidArgumentError(argument.cls, args, "user_argument_too_short", argument, value)
                      ELSE IF Len(noU) > 20
                      THEN InvalidArgumentError(argument.cls, args, "user_argument_too_long", argument, value)
                      ELSE Ok(Str(noU))
                 ELSE InvalidArgumentError(argument.cls, args, "user_argument_invalid", argument, value)

\* SubredditArgument.getValue
SubredditGetValue(argument, value, args) ==
    LET string == StringGetValue(argument, value, args)
    IN  IF string.threw # "none" THEN string
        ELSE LET noR == stripPrefix(StringOf(string.val), "r", "R")
             IN  IF /\ Len(noR) >= 2
                    /\ noR[1] \in Letters \cup Digits
                    /\ allChars(Tail(noR), WordChars)
                 THEN IF Len(noR) < 3
                      THEN InvalidArgumentError(argument.cls, args, "subreddit_argument_too_short", argument, value)
                      ELSE IF Len(noR) > 20
                      THEN InvalidArgumentError(argument.cls, args, "subreddit_argument_too_long", argument, value)
                      ELSE Ok(Str(noR))
                 ELSE InvalidArgumentError(argument.cls, args, "subreddit_argument_invalid", argument, value)

\* argTypes.command.getValue
CommandGetValue(argument, value, args, registry) ==
    IF value = Undefined THEN Ok(Undefined)
    ELSE IF MapHas(registry, value)
    THEN LET cmd == registry[value]
         IN  IF ~Truthy(argument.allowAlias) /\ cmd.name # cmd.originalName
             THEN InvalidArgumentError(argument.cls, args, "command_argument_not_original", argument, value)
             ELSE Ok(cmd)
    ELSE InvalidArgumentError(argument.cls, args, "command_argument_nonexistent", argument, value)

\* argTypes.custom.getValue: the function is called and its result dropped
CustomGetValue(argument, value, args) ==
    IF argument.custom.t # "function" THEN Throw("TypeError") ELSE Ok(Undefined)

\* the digits at the start of s, as a number; n is the value read so far
RECURSIVE digitsValue(_, _)
digitsValue(s, n) ==
    IF s # <<>> /\ Head(s) \in Digits
    THEN digitsValue(Tail(s), 10 * n + (CHOOSE d \in 0..9 : DigitSeq[d + 1] = Head(s)))
    ELSE n

\* parseInt(value): leading white space, a sign, then the longest run of decimal
\* digits; NaN when there is none (no token of the model starts with 0x)
parseInt(value) ==
    LET s == trimStart(StringOf(value))
        signed == s # <<>> /\ Head(s) \in {"-", "+"}
        digits == IF signed THEN Tail(s) ELSE s
    IN  IF digits = <<>> \/ Head(digits) \notin Digits THEN NaN
        ELSE IF signed /\ Head(s) = "-" THEN Num(0 - digitsValue(digits, 0))
        ELSE Num(digitsValue(digits, 0))

\* argTypes.integer.getValue (parseInt yields NaN or an integer)
IntegerGetValue(argument, value, args) ==
    IF value = Undefined THEN Ok(Undefined)
    ELSE LET int == parseInt(value)
         IN  IF int.k = "nan"
             THEN InvalidArgumentError(argument.cls, args, "integer_argument_invalid", argument, value)
             ELSE IF Ge(int, argument.max)
             THEN InvalidArgumentError(argument.cls, args, "integer_argument_too_high", argument, value)
             ELSE IF Ge(argument.min, int)
             THEN InvalidArgumentError(argument.cls, args, "integer_argument_too_low", argument, value)
             ELSE Ok(int)

\* parse-duration: the number at the start of the text times its unit, in
\* milliseconds (s is the one unit of the model); 0 when there is no number.
\* It does not throw on a string.
dur(value) ==
    LET s == StringOf(value)
        n == digitsValue(s, 0)
        unit == SelectSeq(s, LAMBDA c : c \notin Digits)
    IN  IF s = <<>> \/ Head(s) \notin Digits THEN Num(0)
        ELSE IF unit = <<"s">> THEN Num(1000 * n)
        ELSE Num(n)

\* argTypes.duration.getValue
DurationGetValue(argument, value, args) ==
    IF value = Undefined THEN Ok(Undefined) ELSE Ok(dur(value))

\* this.getValue(value, args), by the class of the descriptor
getValue(argument, value, args, registry) ==
    CASE argument.cls = "generic" -> GenericGetValue(argument, value, args)
      [] argument.cls = "string" -> StringGetValue(argument, value, args)
      [] argument.cls = "user" -> UserGetValue(argument, value, args)
      [] argument.cls = "subreddit" -> SubredditGetValue(argument, value, args)
      [] argument.cls = "command" -> CommandGetValue(argument, value, args, registry)
      [] argument.cls = "custom" -> CustomGetValue(argument, value, args)
      [] argument.cls = "duration" -> DurationGetValue(argument, value, args)
      [] argument.cls = "integer" -> IntegerGetValue(argument, value, args)

defaulter(val, defaultTo) ==
    IF ~Truthy(defaultTo) THEN val
    ELSE IF val = Undefined \/ isError(val) THEN defaultTo
    ELSE val

\* Argument.getWithDefault, after this.getValue returned val: the required
\* test, the default and the choices
resolveValue(argument, value, args, val) ==
    IF val.threw # "none" THEN val
    ELSE IF Truthy(argument.required) /\ val.val = Undefined
    THEN InvalidArgumentError(argument.cls, args, "argument_required", argument, value)
    ELSE IF \/ argument.choices.t # "array"
            \/ defaulter(val.val, argument.default) \in Range(argument.choices.a)
    THEN Ok(defaulter(val.val, argument.default))
    ELSE InvalidArgumentError(argument.cls, args, "argument_unavailable_choice", argument, value)

\* Argument.getWithDefault
getWithDefault(argument, value, args, registry) ==
    resolveValue(argument, value, args, getValue(argument, value, args, registry))

\* Argument.get, after getWithDefault returned val: {success, value}, the
\* messages sent, what was thrown, and the outcome of getWithDefault; args.send
\* is called without a test that it is a function
report(args, val) ==
    IF val.threw # "none"
    THEN [success |-> FALSE, value |-> Undefined, sent |-> <<>>, threw |-> val.threw,
          outcome |-> Undefined]
    ELSE IF isError(val.val)
    THEN IF Get(args, "send").t # "function"
         THEN [success |-> FALSE, value |-> Undefined, sent |-> <<>>, threw |-> "TypeError",
               outcome |-> val.val]
         ELSE [success |-> FALSE, value |-> Undefined, sent |-> <<val.val.message>>,
               threw |-> "none", outcome |-> val.val]
    ELSE [success |-> TRUE, value |-> val.val, sent |-> <<>>, threw |-> "none",
          outcome |-> val.val]

\* Argument.get
get(argument, value, args, registry) ==
    report(args, getWithDefault(argument, value, args, registry))

(***************************************************************************)
(* The API calls.                                                          *)
(***************************************************************************)
\* register(cmdOrCmds)
register(cmdOrCmds) ==
    /\ pc = "ready"
    /\ LET done == IF cmdOrCmds.t = "array"
                   THEN registerEach(cmdRegistry, cmdOrCmds.a, 1)
                   ELSE registerSingle(cmdRegistry, cmdOrCmds)
       IN  /\ cmdRegistry' = done.registry
           /\ out' = [op |-> "register", cmd |-> cmdOrCmds, threw |-> done.threw]
    /\ pc' = "done"

\* clear()
clear ==
    /\ pc = "ready"
    /\ cmdRegistry' = EmptyMap
    /\ out' = [op |-> "clear", threw |-> "none"]
    /\ pc' = "done"

\* deregister taking the narrow branch whatever includeAlternatives is
deregisterNarrow(name, includeAlternatives) ==
    /\ pc = "ready"
    /\ cmdRegistry' = MapFilter(cmdRegistry, {command \in Range(cmdRegistry) : command.name # name})
    /\ out' = [op |-> "deregister", name |-> name,
               includeAlternatives |-> includeAlternatives,
               before |-> cmdRegistry, threw |-> "none"]
    /\ pc' = "done"

\* deregister(name, includeAlternatives = true)
deregister(name, includeAlternatives) ==
    /\ pc = "ready"
    /\ cmdRegistry' =
          IF includeAlternatives
          THEN MapFilter(cmdRegistry, {command \in Range(cmdRegistry) : command.originalName # name})
          ELSE MapFilter(cmdRegistry, {command \in Range(cmdRegistry) : command.name # name})
    /\ out' = [op |-> "deregister", name |-> name,
               includeAlternatives |-> includeAlternatives,
               before |-> cmdRegistry, threw |-> "none"]
    /\ pc' = "done"

\* the length of the first token of t: up to the first white space outside
\* double quotes, reading from character i
RECURSIVE tokenEnd(_, _, _)
tokenEnd(t, i, quoted) ==
    IF i > Len(t) THEN Len(t)
    ELSE IF isSpace(t[i]) /\ ~quoted THEN i - 1
    ELSE tokenEnd(t, i + 1, IF t[i] = "\"" THEN ~quoted ELSE quoted)

\* smart-splitter, split(text, max): at most max tokens, a double-quoted span
\* being part of one token, the last token taking the rest of the text unsplit
RECURSIVE split(_, _)
split(text, max) ==
    LET t == trimStart(text)
    IN  IF t = <<>> \/ max <= 0 THEN <<>>
        ELSE IF max = 1 THEN <<t>>
        ELSE LET n == tokenEnd(t, 1, FALSE)
             IN  <<SubSeq(t, 1, n)>> \o split(SubSeq(t, n + 1, Len(t)), max - 1)

ArgKeys == <<"arg-one", "arg-two", "arg-three", "arg-four">>

\* camelcase, on the keys of the model: a key without separators is unchanged
camelCase(key) ==
    CASE key = "arg-one" -> "argOne"
      [] key = "arg-two" -> "argTwo"
      [] key = "arg-three" -> "argThree"
      [] key = "arg-four" -> "argFour"
      [] OTHER -> key

CommandsDot == <<"c", "o", "m", "m", "a", "n", "d", "s", ".">>

\* the permission string built of the name the record is filed under
cmdPermByName(cmdSource) ==
    CommandsDot
    \o (IF Truthy(cmdSource.category) THEN StringOf(cmdSource.category) \o <<".">> ELSE <<>>)
    \o StringOf(cmdSource.name)

\* parse, the permission string
cmdPerm(cmdSource) ==
    CommandsDot
    \o (IF Truthy(cmdSource.category) THEN StringOf(cmdSource.category) \o <<".">> ELSE <<>>)
    \o StringOf(cmdSource.originalName)

\* the permission gate without "success = false"
permissionGateOpen(cmdSource, argsObj) ==
    IF Truthy(Get(argsObj, "testPermission")) /\ ~Truthy(cmdSource.permissionless)
    THEN [success |-> TRUE, tested |-> <<cmdPerm(cmdSource)>>, sent |-> <<>>]
    ELSE [success |-> TRUE, tested |-> <<>>, sent |-> <<>>]

\* parse, the permission gate: success, the strings tested and the messages sent
permissionGate(cmdSource, argsObj) ==
    IF Truthy(Get(argsObj, "testPermission")) /\ ~Truthy(cmdSource.permissionless)
    THEN IF cmdPerm(cmdSource) \in Get(argsObj, "testPermission").f
         THEN [success |-> TRUE, tested |-> <<cmdPerm(cmdSource)>>, sent |-> <<>>]
         ELSE [success |-> FALSE, tested |-> <<cmdPerm(cmdSource)>>,
               sent |-> IF Truthy(Get(argsObj, "localize")) /\ Truthy(Get(argsObj, "send"))
                        THEN <<localize(Get(argsObj, "localize"), "no_permission", "")>>
                        ELSE <<>>]
    ELSE [success |-> TRUE, tested |-> <<>>, sent |-> <<>>]

\* args[index]
tokenAt(args, index) == IF index <= Len(args) THEN Str(args[index]) ELSE Undefined

\* the callback with argsObj being pass itself and not a copy of it: the
\* values are written to the caller's object too
assignInPlace(acc, argument, token, got) ==
    [argsObj |-> IF got.threw # "none" THEN acc.argsObj
                 ELSE Put(Put(acc.argsObj, camelCase(argument.key), got.value),
                          argument.key, got.value),
     pass |-> IF got.threw # "none" THEN acc.pass
              ELSE Put(Put(acc.pass, camelCase(argument.key), got.value),
                       argument.key, got.value),
     success |-> acc.success /\ got.success,
     sent |-> acc.sent \o got.sent,
     validated |-> Append(acc.validated,
                          [key |-> argument.key, token |-> token, outcome |-> got.outcome]),
     threw |-> got.threw]

\* parse, the callback of cmdSource.arguments.forEach after argument.get
\* returned got: acc with the descriptor's value filed under both keys of
\* argsObj, the copy; pass, the caller's object, is not written
assign(acc, argument, token, got) ==
    [argsObj |-> IF got.threw # "none" THEN acc.argsObj
                 ELSE Put(Put(acc.argsObj, camelCase(argument.key), got.value),
                          argument.key, got.value),
     pass |-> acc.pass,
     success |-> acc.success /\ got.success,
     sent |-> acc.sent \o got.sent,
     validated |-> Append(acc.validated,
                          [key |-> argument.key, token |-> token, outcome |-> got.outcome]),
     threw |-> got.threw]

\* parse, cmdSource.arguments.forEach from descriptor index on; a throw ends the
\* loop and the call
RECURSIVE validateArguments(_, _, _, _, _, _)
validateArguments(arguments, args, pass, registry, index, acc) ==
    IF index > Len(arguments) \/ acc.threw # "none" THEN acc
    ELSE validateArguments(arguments, args, pass, registry, index + 1,
            assign(acc, arguments[index], tokenAt(args, index),
                   get(arguments[index], tokenAt(args, index), pass, registry)))

\* a predicate of check, applied to the assembled argument object
callCheck(check, argsObj) ==
    CASE check.f = "accept" -> TRUE
      [] check.f = "reject" -> FALSE
      [] check.f = "first-given" -> Get(argsObj, ArgKeys[1]) # Undefined

\* the predicate gate with some in the place of every
checkGateSome(cmdSource, argsObj) ==
    IF cmdSource.check.t = "array"
    THEN \E i \in DOMAIN cmdSource.check.a : callCheck(cmdSource.check.a[i], argsObj)
    ELSE IF Truthy(cmdSource.check) THEN callCheck(cmdSource.check, argsObj)
    ELSE TRUE

\* parse, the predicate gate
checkGate(cmdSource, argsObj) ==
    IF cmdSource.check.t = "array"
    THEN \A i \in DOMAIN cmdSource.check.a : callCheck(cmdSource.check.a[i], argsObj)
    ELSE IF Truthy(cmdSource.check) THEN callCheck(cmdSource.check, argsObj)
    ELSE TRUE

NoResult ==
    [resolved |-> Undefined, returned |-> Undefined, threw |-> "none", sent |-> <<>>,
     tested |-> <<>>, validated |-> <<>>, ran |-> FALSE, handled |-> Undefined,
     success |-> FALSE]

\* parse, from "if (success)" on: the caller's object after the call, what the
\* call returned, threw, sent and tested, the descriptors it validated, whether it called run and what the
\* handler got
finish(cmdSource, tested, done) ==
    [resolved |-> cmdSource,
     context |-> done.pass,
     returned |-> IF done.threw = "none" /\ done.success
                  THEN [t |-> "object", props |-> done.argsObj]
                  ELSE Undefined,
     threw |-> done.threw,
     sent |-> done.sent,
     tested |-> tested,
     validated |-> done.validated,
     success |-> done.threw = "none" /\ done.success,
     ran |-> done.threw = "none" /\ done.success /\ checkGate(cmdSource, done.argsObj),
     handled |-> IF /\ done.threw = "none" /\ done.success
                    /\ checkGate(cmdSource, done.argsObj)
                    /\ Truthy(cmdSource.handler)
                 THEN [t |-> "object", props |-> done.argsObj]
                 ELSE Undefined]

\* parse, after the permission gate left gate
runGated(registry, cmdSource, args, pass, gate) ==
    finish(cmdSource, gate.tested,
           validateArguments(cmdSource.arguments.a, args, pass, registry, 1,
              [argsObj |-> pass, pass |-> pass, success |-> gate.success, sent |-> gate.sent,
               validated |-> <<>>, threw |-> "none"]))

\* parse, the body of "if (cmdSource)"
runCommand(registry, cmdSource, rest, pass) ==
    runGated(registry, cmdSource, split(rest, Len(cmdSource.arguments.a)), pass,
             permissionGate(cmdSource, pass))

\* parse(command, pass), the outcome of the call
parseCall(registry, command, pass) ==
    LET cmd == trim(command)
        firstSpace == IF " " \in Range(cmd) THEN indexOf(cmd, " ") ELSE Len(cmd)
        cmdStr == substr(cmd, 0, firstSpace)
    IN  IF cmdStr = <<>> THEN NoResult
        ELSE IF ~MapHas(registry, Str(cmdStr)) THEN NoResult
        ELSE runCommand(registry, registry[Str(cmdStr)], substr(cmd, firstSpace + 1, Len(cmd)), pass)

\* parse(command, pass)
parse(command, pass) ==
    /\ pc = "ready"
    /\ out' = [op |-> "parse", command |-> command, pass |-> pass] @@
              parseCall(cmdRegistry, command, pass) @@ [context |-> pass]
    /\ pc' = "done"
    /\ UNCHANGED cmdRegistry

(***************************************************************************)
(* The single-file module src/index.js: its own register and parse, on its *)
(* own cmdRegistry.                                                        *)
(***************************************************************************)
\* src/index.js register, the callback of alias.forEach from alias[i] on
RECURSIVE rootRegisterAliases(_, _, _, _, _)
rootRegisterAliases(registry, cmd, alias, name, i) ==
    IF i > Len(alias) THEN registry
    ELSE LET aname == alias[i]
             named == [cmd EXCEPT !.name = aname,
                                  !.originalName = name,
                                  !.aliases = Arr(SelectSeq(alias, LAMBDA name2 : name2 # aname))]
             cmdFixed == Command(named)
         IN  rootRegisterAliases(MapSet(registry, aname, cmdFixed), named, alias, name, i + 1)

\* src/index.js register(cmd); cmd is an object, so the type test passes
rootRegister(cmd) ==
    /\ pc = "ready"
    /\ LET name == findName(cmd)
       IN  IF ~Truthy(name)
           THEN /\ cmdRegistry' = cmdRegistry
                /\ out' = [op |-> "register", cmd |-> cmd, threw |-> "Error"]
           ELSE LET alias == Or(cmd.aliases, Arr(<<>>)).a \o <<name>>
                IN  /\ cmdRegistry' = rootRegisterAliases(cmdRegistry, cmd, alias, name, 1)
                    /\ out' = [op |-> "register", cmd |-> cmd, threw |-> "none"]
    /\ pc' = "done"

\* the length of the longest match of (?:[^\s"]+|"[^"]*")+ at the start of s
RECURSIVE matchLength(_)
matchLength(s) ==
    IF s = <<>> THEN 0
    ELSE IF Head(s) = "\""
    THEN IF "\"" \in Range(Tail(s))
         THEN LET n == indexOf(Tail(s), "\"") + 2
              IN  n + matchLength(SubSeq(s, n + 1, Len(s)))
         ELSE 0
    ELSE IF isSpace(Head(s)) THEN 0
    ELSE 1 + matchLength(Tail(s))

\* cmd.match(/(?:[^\s"]+|"[^"]*")+/g): the matches; none stands for null
RECURSIVE match(_)
match(s) ==
    IF s = <<>> THEN <<>>
    ELSE LET n == matchLength(s)
         IN  IF n = 0 THEN match(Tail(s))
             ELSE <<SubSeq(s, 1, n)>> \o match(SubSeq(s, n + 1, Len(s)))

\* src/index.js parse, the callback of cmdSource.arguments.forEach after
\* argument.get returned got
rootAssign(acc, argument, token, got) ==
    [argsObj |-> IF got.threw # "none" THEN acc.argsObj
                 ELSE Put(acc.argsObj, argument.key, got.value),
     pass |-> acc.pass,
     success |-> acc.success /\ got.success,
     sent |-> acc.sent \o got.sent,
     validated |-> Append(acc.validated,
                          [key |-> argument.key, token |-> token, outcome |-> got.outcome]),
     threw |-> got.threw]

\* src/index.js parse, cmdSource.arguments.forEach from descriptor index on
RECURSIVE rootValidateArguments(_, _, _, _, _, _)
rootValidateArguments(arguments, args, pass, registry, index, acc) ==
    IF index > Len(arguments) \/ acc.threw # "none" THEN acc
    ELSE rootValidateArguments(arguments, args, pass, registry, index + 1,
            rootAssign(acc, arguments[index], tokenAt(args, index),
                       get(arguments[index], tokenAt(args, index), pass, registry)))

\* src/index.js parse, after cmd.match returned parts: null (no match) makes
\* parts.length throw
rootDispatch(registry, parts, pass) ==
    IF parts = <<>> THEN [NoResult EXCEPT !.threw = "TypeError"]
    ELSE IF ~MapHas(registry, Str(parts[1])) THEN NoResult
    ELSE finish(registry[Str(parts[1])], <<>>,
                rootValidateArguments(registry[Str(parts[1])].arguments.a, Tail(parts), pass,
                   registry, 1,
                   [argsObj |-> pass, pass |-> pass, success |-> TRUE, sent |-> <<>>,
                    validated |-> <<>>, threw |-> "none"]))

\* src/index.js parse(command, pass), the outcome of the call
rootParseCall(registry, command, pass) == rootDispatch(registry, match(trim(command)), pass)

\* src/index.js parse(command, pass)
rootParse(command, pass) ==
    /\ pc = "ready"
    /\ out' = [op |-> "parse", command |-> command, pass |-> pass] @@
              rootParseCall(cmdRegistry, command, pass) @@ [context |-> pass]
    /\ pc' = "done"
    /\ UNCHANGED cmdRegistry

\* the host's next turn: the call has returned and its outcome is dropped
hostTurn ==
    /\ pc = "done"
    /\ pc' = "ready"
    /\ out' = [op |-> "none"]
    /\ UNCHANGED cmdRegistry

(***************************************************************************)
(* The calls the host makes on the registry: three names, alias lists of   *)
(* at most MaxAliases of them, an empty alias, a specification named by    *)
(* its command field, one with no name, one with an empty name, and the    *)
(* same as constructed Command instances.                                  *)
(***************************************************************************)
NameSeq == <<Str(<<"a">>), Str(<<"b">>), Str(<<"c">>)>>

Names == Range(NameSeq)

EmptyName == Str(<<>>)

AliasLists ==
    {SelectSeq(NameSeq, LAMBDA n : n \in S) : S \in {T \in SUBSET Names : Cardinality(T) <= MaxAliases}}
    \cup {<<EmptyName>>}

NameFields ==
    {[name |-> n, command |-> Undefined] : n \in Names}
    \cup {[name |-> Undefined, command |-> NameSeq[3]],
          [name |-> Undefined, command |-> Undefined],
          [name |-> EmptyName, command |-> Undefined]}

handlerFn == Func("handler")

PlainSpec(nf, aliases) ==
    [t |-> "object",
     isCommand |-> FALSE,
     name |-> nf.name,
     command |-> nf.command,
     originalName |-> Undefined,
     aliases |-> aliases,
     arguments |-> Undefined,
     check |-> Undefined,
     permissionless |-> Undefined,
     category |-> Undefined,
     handler |-> handlerFn]

RegistrySpecs ==
    {PlainSpec(nf, al) : nf \in NameFields, al \in {Arr(a) : a \in AliasLists} \cup {Undefined}}

\* new Command(spec), built by the caller
RegistryInstances == {resolveCommand(sp) : sp \in RegistrySpecs}

RegistryBatches ==
    {Arr(<<PlainSpec(nf1, Undefined), PlainSpec(nf2, Undefined)>>) : nf1 \in NameFields, nf2 \in NameFields}

DeregisterNames == Names \cup {EmptyName}

(***************************************************************************)
(* The contexts the host passes to parse: each of localize, send and       *)
(* testPermission is there or not.  A localize knows every code or only    *)
(* the generic one; a testPermission grants a set of strings.              *)
(***************************************************************************)
Codes ==
    {"no_permission", "argument_invalid", "argument_required", "argument_unavailable_choice",
     "string_argument_regexp_fail", "string_argument_too_long", "string_argument_too_short",
     "user_argument_too_short", "user_argument_too_long", "user_argument_invalid",
     "subreddit_argument_too_short", "subreddit_argument_too_long",
     "subreddit_argument_invalid", "command_argument_not_original",
     "command_argument_nonexistent", "duration_argument_invalid",
     "integer_argument_invalid", "integer_argument_too_high", "integer_argument_too_low"}

Category == Str(<<"m">>)

PermA == CommandsDot \o <<"a">>

PermMA == CommandsDot \o <<"m", ".", "a">>

Context(localizeFn, sendFn, testPermissionFn) ==
    LET all == [localize |-> localizeFn, send |-> sendFn, testPermission |-> testPermissionFn]
    IN  [k \in {j \in DOMAIN all : all[j] # Undefined} |-> all[k]]

Contexts ==
    {Context(l, sd, tp) :
        l \in {Undefined, Func(Codes), Func({"argument_invalid"})},
        sd \in {Undefined, Func("send")},
        tp \in {Undefined, Func({}), Func({PermA, PermMA})}}

RegistryContexts == {Context(Undefined, Undefined, tp) : tp \in {Undefined, Func({PermA})}}

RegistryLines == {<<>>, <<"a">>, <<"b">>, <<"c">>}

(***************************************************************************)
(* The commands the host registers to dispatch on: one command a with up   *)
(* to MaxArgs descriptors of one kind, a predicate or up to MaxChecks of   *)
(* them, and the gating fields; and the lines it parses: a, an unknown     *)
(* name or nothing, then up to MaxTokens words.                            *)
(***************************************************************************)
ArgSpec(type, key, required, default) ==
    [t |-> "object",
     isArgument |-> FALSE,
     type |-> type,
     key |-> key,
     required |-> required,
     default |-> default,
     choices |-> Undefined,
     minLength |-> Undefined,
     maxLength |-> Undefined,
     matches |-> Undefined,
     min |-> Undefined,
     max |-> Undefined,
     allowAlias |-> Undefined,
     custom |-> Func("custom")]

ArgLists ==
    {[i \in 1..n |-> ArgSpec(type, ArgKeys[i], rd[1], rd[2])] :
        n \in 0..MaxArgs,
        type \in argTypeNames \cup {"text"},
        rd \in {<<Bool(TRUE), Undefined>>, <<Undefined, Undefined>>, <<Undefined, Str(<<"d">>)>>}}

Predicates == {Func("accept"), Func("reject"), Func("first-given")}

RECURSIVE SeqsUpTo(_, _)
SeqsUpTo(S, n) ==
    IF n = 0 THEN {<<>>}
    ELSE LET shorter == SeqsUpTo(S, n - 1)
         IN  shorter \cup {Append(q, x) : q \in shorter, x \in S}

Checks == {Undefined} \cup Predicates \cup {Arr(q) : q \in SeqsUpTo({Func("accept"), Func("reject")}, MaxChecks)}

DispatchSpec(arguments, check, permissionless, category, handler) ==
    [PlainSpec([name |-> NameSeq[1], command |-> Undefined], Undefined)
     EXCEPT !.arguments = Arr(arguments), !.check = check,
            !.permissionless = permissionless, !.category = category, !.handler = handler]

\* every argument list with a handler and no gating or one rejecting predicate;
\* every gating with required integers or no argument
DispatchSpecs ==
    {DispatchSpec(al, ck, Undefined, Undefined, handlerFn) :
        al \in ArgLists, ck \in {Undefined, Arr(<<Func("accept"), Func("reject")>>)}}
    \cup
    {DispatchSpec(al, ck, pl, cat, h) :
        al \in {q \in ArgLists : \A i \in DOMAIN q : /\ q[i].required = Bool(TRUE)
                                                    /\ q[i].type = "integer"},
        ck \in Checks,
        pl \in {Undefined, Bool(TRUE)},
        cat \in {Undefined, Category},
        h \in {Undefined, handlerFn}}

Words == {<<"5">>, <<"a", "b", "c">>, <<"a">>, <<"u", "/", "a", "b">>}

RECURSIVE join(_)
join(words) ==
    IF words = <<>> THEN <<>>
    ELSE IF Len(words) = 1 THEN words[1]
    ELSE words[1] \o <<" ">> \o join(Tail(words))

\* the tokens after the first are a number or a word
TokenSeqs ==
    {<<>>} \cup {<<w>> \o q : w \in Words,
                              q \in SeqsUpTo({<<"5">>, <<"a", "b", "c">>}, MaxTokens - 1)}

DispatchLines ==
    {join(<< <<"a">> >> \o q) : q \in TokenSeqs}
    \cup {<<>>, <<" ", "\t">>, <<"b">>, <<"b", " ", "5">>, <<" ", "a", " ", " ", "5", " ">>, <<"a", "\t", "5">>,
          <<"a", " ", "\"", "5", " ", "5", "\"", " ", "5">>}

\* the calls on src/index.js: a with every argument list, with or without a
\* list of predicates, or with an alias; lines without tabs, and the contexts
\* with localize and send or with neither
RootSpecs ==
    {DispatchSpec(al, ck, Undefined, Undefined, handlerFn) :
        al \in ArgLists, ck \in {Undefined, Arr(<<Func("accept"), Func("reject")>>)}}
    \cup {PlainSpec([name |-> NameSeq[1], command |-> Undefined], Arr(<<al>>)) :
             al \in {NameSeq[2], EmptyName}}
    \cup {PlainSpec([name |-> nm, command |-> Undefined], Arr(<<NameSeq[2]>>)) :
             nm \in {Undefined, EmptyName}}

RootLines ==
    {join(<< <<"a">> >> \o q) : q \in TokenSeqs}
    \cup {<<>>, <<" ", " ">>, <<"b">>, <<"c", " ", "5">>, <<" ", "a", " ", " ", "5", " ">>,
          <<"a", " ", "\"", "5", " ", "5", "\"", " ", "5">>}

RootContexts ==
    {Context(Undefined, Undefined, Undefined), Context(Func(Codes), Func("send"), Undefined),
     Context(Func(Codes), Func("send"), Func({}))}

Init ==
    /\ cmdRegistry = EmptyMap
    /\ pc = "ready"
    /\ out = [op |-> "none"]

Next ==
    \/ \E cmd \in RegistrySpecs \cup RegistryInstances \cup RegistryBatches : register(cmd)
    \/ \E name \in DeregisterNames, includeAlternatives \in BOOLEAN :
          deregister(name, includeAlternatives)
    \/ clear
    \/ \E command \in RegistryLines, pass \in RegistryContexts : parse(command, pass)
    \/ hostTurn

Spec == Init /\ [][Next]_vars

NextDispatch ==
    \/ \E cmd \in DispatchSpecs : register(cmd)
    \/ \E includeAlternatives \in BOOLEAN : deregister(NameSeq[1], includeAlternatives)
    \/ clear
    \/ \E command \in DispatchLines, pass \in Contexts : parse(command, pass)
    \/ hostTurn

SpecDispatch == Init /\ [][NextDispatch]_vars

NextRoot ==
    \/ \E cmd \in RootSpecs : rootRegister(cmd)
    \/ \E command \in RootLines, pass \in RootContexts : rootParse(command, pass)
    \/ hostTurn

SpecRoot == Init /\ [][NextRoot]_vars

(***************************************************************************)
(* Properties of the registry, checked under Spec.                         *)
(***************************************************************************)
Keys == DOMAIN cmdRegistry

\* the canonical name and the declared aliases of a specification
canonicalName(cmd) == IF Truthy(cmd.name) THEN cmd.name ELSE cmd.command

declaredAliases(cmd) == IF cmd.aliases.t = "array" THEN Range(cmd.aliases.a) ELSE {}

\* C2: every key of the registry maps to a record whose name field is that key.
C2_NameIsKey == \A k \in Keys : cmdRegistry[k].name = k

\* C3: right after register(spec) of one specification with canonical name n and
\* declared aliases A, every key of {n} \cup A is filed, with originalName n and
\* with aliases field ({n} \cup A) minus that key.
C3_RegisterFilesAll ==
    (out.op = "register" /\ out.cmd.t = "object" /\ out.threw = "none") =>
        LET n == canonicalName(out.cmd)
            all == declaredAliases(out.cmd) \cup {n}
        IN  \A k \in all :
                /\ k \in Keys
                /\ cmdRegistry[k].originalName = n
                /\ Range(cmdRegistry[k].aliases.a) = all \ {k}

C3_Witness ==
    /\ out.op = "register" /\ out.cmd.t = "object" /\ out.threw = "none"
    /\ Cardinality(declaredAliases(out.cmd) \ {canonicalName(out.cmd)}) = MaxAliases
    /\ out.cmd.isCommand

\* C4: after deregister(name, true), name being the canonical name of a registered
\* command, neither name nor any key filed for that command is a key any more,
\* and every key filed for a command with another originalName is still there
\* with the record it had.
C4_DeregisterRemovesCommand ==
    (/\ out.op = "deregister" /\ out.includeAlternatives
     /\ out.name \in DOMAIN out.before
     /\ out.before[out.name].originalName = out.name) =>
        /\ out.name \notin Keys
        /\ \A k \in DOMAIN out.before :
              IF out.before[k].originalName = out.name
              THEN k \notin Keys
              ELSE k \in Keys /\ cmdRegistry[k] = out.before[k]
        /\ Keys \subseteq DOMAIN out.before

C4_Witness ==
    /\ out.op = "deregister" /\ out.includeAlternatives
    /\ out.name \in DOMAIN out.before
    /\ out.before[out.name].originalName = out.name
    /\ \E k \in DOMAIN out.before :
          /\ k # out.name
          /\ k \in Range(out.before[out.name].aliases.a)
          /\ out.before[k].originalName = out.name
          /\ k \notin Keys
    /\ \E k \in Keys : cmdRegistry[k].originalName # out.name

\* C9: after deregister(name, true), name being an alias of a registered command,
\* neither that alias, nor the canonical name of the command, nor any other
\* alias of it is a key of the registry.
C9_DeregisterByAlias ==
    (/\ out.op = "deregister" /\ out.includeAlternatives
     /\ out.name \in DOMAIN out.before
     /\ out.before[out.name].originalName # out.name) =>
        LET n == out.before[out.name].originalName
        IN  /\ out.name \notin Keys
            /\ \A k \in DOMAIN out.before : out.before[k].originalName = n => k \notin Keys

(***************************************************************************)
(* Properties of parse, checked under SpecDispatch.                        *)
(***************************************************************************)
\* the command token of a line as parse cuts it: the trimmed line up to its
\* first space (a tab does not end it)
cutAt(cmd, stops) ==
    IF stops = {} THEN cmd
    ELSE SubSeq(cmd, 1, (CHOOSE i \in stops : \A j \in stops : i <= j) - 1)

commandToken(line) ==
    LET cmd == trim(line) IN cutAt(cmd, {i \in DOMAIN cmd : cmd[i] = " "})

\* the command token cut at the first white space of any kind
firstWord(line) ==
    LET cmd == trim(line) IN cutAt(cmd, {i \in DOMAIN cmd : isSpace(cmd[i])})

\* the call got past tokenization and lookup
Resolved == out.op = "parse" /\ commandToken(out.command) # <<>>
            /\ Str(commandToken(out.command)) \in Keys

theCommand == cmdRegistry[Str(commandToken(out.command))]

theArguments == theCommand.arguments.a

HandlerInvoked == out.op = "parse" /\ out.handled # Undefined

\* the context has a permission test and the command is subject to it
PermissionTested == "testPermission" \in DOMAIN out.pass /\ theCommand.permissionless # Bool(TRUE)

PermissionAccepted ==
    PermissionTested =>
        (CommandsDot
         \o (IF theCommand.category = Undefined THEN <<>> ELSE theCommand.category.s \o <<".">>)
         \o theCommand.originalName.s) \in out.pass["testPermission"].f

\* descriptor i was validated and did not fail
ArgumentPassed(i) == i <= Len(out.validated) /\ out.validated[i].outcome.t # "error"
                     /\ out.threw = "none"

AllArgumentsPassed == \A i \in DOMAIN theArguments : ArgumentPassed(i)

accepts(predicate, object) ==
    \/ predicate.f = "accept"
    \/ predicate.f = "first-given" /\ "arg-one" \in DOMAIN object /\ object["arg-one"] # Undefined

\* the predicate, or every predicate of the list, accepts the object
PredicatesAccept(object) ==
    CASE theCommand.check.t = "array" ->
            \A i \in DOMAIN theCommand.check.a : accepts(theCommand.check.a[i], object)
      [] theCommand.check.t = "function" -> accepts(theCommand.check, object)
      [] OTHER -> TRUE

C6_RequiredAbsentFails ==
    (Resolved /\ out.threw = "none") =>
        \A i \in DOMAIN out.validated :
            (theArguments[i].required = Bool(TRUE) /\ out.validated[i].token = Undefined) =>
                /\ out.validated[i].outcome.t = "error"
                /\ out.validated[i].outcome.code = "ARGUMENT_REQUIRED"
                /\ out.handled = Undefined

\* C7: parse never raises: a failed validation, a rejected permission test or a
\* rejecting predicate ends the call by a normal return.
C7_NeverRaises == out.op = "parse" => out.threw = "none"

\* C8: a line that is blank after trimming, or whose command token (cut at the
\* first space, or at the first white space) is no key of the registry, is a
\* silent no-op: nothing returned, no handler invoked, no
\* message sent, no permission tested, nothing raised.
C8_SilentNoOp ==
    (out.op = "parse" /\ (~Resolved \/ Str(firstWord(out.command)) \notin Keys)) =>
        /\ out.returned = Undefined
        /\ out.handled = Undefined /\ ~out.ran
        /\ out.sent = <<>>
        /\ out.tested = <<>>
        /\ out.validated = <<>>
        /\ out.threw = "none"

\* src/index.js parse, which has no permission gate, under SpecRoot: the handler
\* is invoked only if every descriptor validated and every predicate accepted,
\* and the object is returned exactly when every descriptor validated
RootHandlerOnlyIfAllPassed ==
    HandlerInvoked => (Resolved /\ AllArgumentsPassed /\ PredicatesAccept(out.handled.props))

RootReturnsOnSuccess ==
    out.op = "parse" => ((out.returned # Undefined) <=> (Resolved /\ AllArgumentsPassed))

\* src/index.js parse under SpecRoot: a line that has a token but no registered
\* command is a silent no-op
RootUnknownNoOp ==
    (out.op = "parse" /\ trim(out.command) # <<>>) => C8_SilentNoOp

\* the messages of the failing descriptors, in the order of the descriptors
RECURSIVE failureMessages(_)
failureMessages(validated) ==
    IF validated = <<>> THEN <<>>
    ELSE (IF Head(validated).outcome.t = "error" THEN <<Head(validated).outcome.message>> ELSE <<>>)
         \o failureMessages(Tail(validated))

\* C10: parse validates all n descriptors in declaration order, whatever failed
\* before and whatever the permission test said, and one message is sent for
\* each failing descriptor.
C10_ValidatesAll ==
    Resolved =>
        /\ Len(out.validated) = Len(theArguments)
        /\ \A i \in DOMAIN theArguments : out.validated[i].key = theArguments[i].key
        /\ \E gate \in {<<>>} \cup {<<m>> : m \in {Undefined, Str(<<"no_permission", "">>)}} :
              out.sent = gate \o failureMessages(out.validated)

(***************************************************************************)
(* Commands with aliases: a under its own name and under b and c, with     *)
(* arguments and gating, and b registered as a command of its own; the     *)
(* lines name a, b or c.  Checked under SpecAlias.                         *)
(***************************************************************************)
AliasArgLists ==
    {<<>>,
     <<ArgSpec("integer", ArgKeys[1], Bool(TRUE), Undefined)>>,
     <<ArgSpec("command", ArgKeys[1], Undefined, Undefined)>>}

AliasSpecs ==
    {[DispatchSpec(al, Undefined, Undefined, cat, handlerFn) EXCEPT !.aliases = aliases] :
        al \in AliasArgLists,
        cat \in {Undefined, Category},
        aliases \in {Undefined} \cup {Arr(q) : q \in {r \in AliasLists : r # <<>> /\ EmptyName \notin Range(r)
                                                                     /\ NameSeq[1] \notin Range(r)}}}
    \cup {PlainSpec([name |-> NameSeq[2], command |-> Undefined], Undefined)}

AliasLines ==
    {n.s \o rest : n \in Names, rest \in {<<>>, <<" ", "5">>, <<" ", "b">>}}

AliasContexts ==
    {Context(Func(Codes), Func("send"), tp) : tp \in {Undefined, Func({PermA}), Func({PermMA})}}

NextAlias ==
    \/ \E cmd \in AliasSpecs : register(cmd)
    \/ \E name \in {NameSeq[1], NameSeq[2]}, includeAlternatives \in BOOLEAN :
          deregister(name, includeAlternatives)
    \/ clear
    \/ \E command \in AliasLines, pass \in AliasContexts : parse(command, pass)
    \/ hostTurn

SpecAlias == Init /\ [][NextAlias]_vars

\* the trimmed line after its command token
restOf(line) == SubSeq(trim(line), Len(commandToken(line)) + 1, Len(trim(line)))

\* the parsed line names an alias that the command filed under the canonical
\* name lists
ParsedByAlias ==
    /\ Resolved
    /\ theCommand.originalName # Str(commandToken(out.command))
    /\ theCommand.originalName \in Keys
    /\ cmdRegistry[theCommand.originalName].originalName = theCommand.originalName
    /\ Str(commandToken(out.command)) \in Range(cmdRegistry[theCommand.originalName].aliases.a)

\* what parse does with the same line under the canonical name
canonicalCall == parseCall(cmdRegistry, theCommand.originalName.s \o restOf(out.command), out.pass)

\* the permission string cut of category and canonical name
canonicalPerm ==
    CommandsDot
    \o (IF theCommand.category = Undefined THEN <<>> ELSE theCommand.category.s \o <<".">>)
    \o theCommand.originalName.s

\* C11: a line that starts with an alias of a command registered under a runs
\* as the same line starting with a: same handler call with the same argument
\* values, same result, messages and throw, the same permission string
\* "commands." + [category + "."] + originalName tested, and the record resolved
\* by either name has originalName a.
C11_AliasRunsAsCanonical ==
    ParsedByAlias =>
        /\ out.handled = canonicalCall.handled
        /\ out.ran = canonicalCall.ran
        /\ out.returned = canonicalCall.returned
        /\ out.validated = canonicalCall.validated
        /\ out.sent = canonicalCall.sent
        /\ out.threw = canonicalCall.threw
        /\ out.tested = canonicalCall.tested
        /\ \A i \in DOMAIN out.tested : out.tested[i] = canonicalPerm
        /\ out.resolved.originalName = theCommand.originalName
        /\ canonicalCall.resolved.originalName = theCommand.originalName
        /\ out.resolved.handler = canonicalCall.resolved.handler

C11_Witness ==
    /\ ParsedByAlias
    /\ HandlerInvoked
    /\ out.tested # <<>>
    /\ theCommand.category # Undefined
    /\ theArguments # <<>> /\ out.handled.props[ArgKeys[1]] # Undefined

(***************************************************************************)
(* The argument types called on their own, as the module exports them: the *)
(* host builds a descriptor with new argTypes[type](arg) and calls its     *)
(* get(value, args).  Checked under SpecArguments.                         *)
(***************************************************************************)
\* new argTypes[arg.type](arg).get(value, args); typed is what its getValue
\* yields on the way
argumentGet(arg, value, args) ==
    /\ pc = "ready"
    /\ out' = [op |-> "get", arg |-> arg, argument |-> makeArgument(arg), value |-> value,
               args |-> args,
               typed |-> getValue(makeArgument(arg), value, args, cmdRegistry),
               got |-> get(makeArgument(arg), value, args, cmdRegistry)]
    /\ pc' = "done"
    /\ UNCHANGED cmdRegistry

\* the decimal numeral of an integer, as the host writes it in a line
RECURSIVE natString(_)
natString(n) ==
    IF n < 10 THEN <<DigitSeq[n + 1]>> ELSE natString(n \div 10) \o <<DigitSeq[(n % 10) + 1]>>

intString(n) == IF n < 0 THEN <<"-">> \o natString(0 - n) ELSE natString(n)

\* the integers of the tokens, and the limits a descriptor configures
MaxInt == 10

MaxLimit == 2

IntegerTokens == {Str(intString(n)) : n \in (0 - MaxInt)..MaxInt}

Limits == {Undefined} \cup {Num(n) : n \in ((0 - MaxLimit)..MaxLimit) \cup {MaxInt}}

IntegerSpecs ==
    {[ArgSpec("integer", ArgKeys[1], Undefined, Undefined) EXCEPT !.min = lo, !.max = hi] :
        lo \in Limits, hi \in Limits}

FullContext == Context(Func(Codes), Func("send"), Undefined)

ArgumentContexts == {FullContext, Context(Undefined, Undefined, Undefined)}

\* the call was get on a descriptor built of a specification of this type
\* without default or choices, and it returned
GotOf(type) ==
    /\ out.op = "get" /\ out.arg.type = type /\ out.got.threw = "none"
    /\ out.arg.default = Undefined /\ out.arg.choices = Undefined

\* the integer a token of IntegerTokens is the numeral of
tokenInt == CHOOSE n \in (0 - MaxInt - 1)..(MaxInt + 1) : Str(intString(n)) = out.value

\* C12: an integer descriptor with configured min and max (0 and negative
\* values included) fails a token that is the numeral of n when n >= max or
\* n <= min, and succeeds with value n otherwise.
C12_IntegerBounds ==
    (/\ GotOf("integer") /\ out.value \in IntegerTokens
     /\ out.arg.min # Undefined /\ out.arg.max # Undefined) =>
        IF tokenInt >= out.arg.max.n \/ tokenInt <= out.arg.min.n
        THEN ~out.got.success /\ out.got.outcome.t = "error"
        ELSE out.got.success /\ out.got.value = Num(tokenInt)

\* the same for limits other than 0
C12_NonZeroBounds ==
    (out.op = "get" /\ out.arg.type = "integer"
     /\ out.arg.min \notin {Undefined, Num(0)} /\ out.arg.max \notin {Undefined, Num(0)}) =>
        C12_IntegerBounds

\* command descriptors: alias-following left out, enabled or disabled; the
\* tokens are names; the registry holds a, with or without the alias b, and b
\* as a command of its own
CommandSpecs ==
    {[ArgSpec("command", ArgKeys[1], Undefined, Undefined) EXCEPT !.allowAlias = allow] :
        allow \in {Undefined, Bool(TRUE), Bool(FALSE)}}

ArgumentRegistrySpecs ==
    {PlainSpec([name |-> NameSeq[1], command |-> Undefined], al) :
        al \in {Undefined, Arr(<<NameSeq[2]>>)}}
    \cup {PlainSpec([name |-> NameSeq[2], command |-> Undefined], Undefined)}

\* the token names a key of the registry
TokenFiled == out.value \in Keys

\* a command descriptor resolves a token that is a key to the record filed
\* under it, and fails a token that is no key
C13_ResolvesKeys ==
    (GotOf("command") /\ out.value # Undefined /\ out.arg.allowAlias # Bool(FALSE)) =>
        IF TokenFiled
        THEN out.got.success /\ out.got.value = cmdRegistry[out.value]
        ELSE ~out.got.success /\ out.got.outcome.code = "COMMAND_ARGUMENT_NONEXISTENT"

\* C13: a command descriptor fails a token that is no key of the registry; with
\* alias-following disabled (allowAlias = false) it fails a token whose record
\* is filed under an alias (name differs from originalName) and succeeds only
\* for the canonical filing.
C13_CommandArgument ==
    (GotOf("command") /\ out.value # Undefined) =>
        /\ ~TokenFiled => ~out.got.success
        /\ (TokenFiled /\ out.arg.allowAlias = Bool(FALSE)) =>
              (out.got.success <=> cmdRegistry[out.value].name = cmdRegistry[out.value].originalName)

\* custom descriptors.  The host's function "custom" returns the token with a
\* mark put before it, and "fail" returns a validation failure of its own.
CustomSpecs ==
    {[ArgSpec("custom", ArgKeys[1], required, Undefined) EXCEPT !.custom = Func(f)] :
        required \in {Undefined, Bool(TRUE)}, f \in {"custom", "fail"}}

customResult(fn, value) ==
    IF fn.f = "fail"
    THEN [t |-> "error", message |-> Str(<<"custom_fail", "">>), code |-> "CUSTOM_FAIL",
          sourceArg |-> "custom"]
    ELSE Str(<<"!">> \o value.s)

WordTokens == {Str(w) : w \in Words}

\* C14: what the function of a custom descriptor returns for a present token is
\* the outcome of the descriptor: a value it returns is the resolved value of
\* the argument, a failure it returns fails the argument.
C14_CustomDelegates ==
    (GotOf("custom") /\ out.value # Undefined) =>
        /\ out.got.outcome = customResult(out.arg.custom, out.value)
        /\ isError(customResult(out.arg.custom, out.value)) => ~out.got.success
        /\ ~isError(customResult(out.arg.custom, out.value)) =>
              (out.got.success /\ out.got.value = customResult(out.arg.custom, out.value))

\* what the custom descriptor does yield: nothing, whatever the function
\* returned, so the argument is absent
C14_CustomYieldsAbsent ==
    (GotOf("custom") /\ out.value # Undefined) =>
        IF out.arg.required = Bool(TRUE)
        THEN ~out.got.success /\ out.got.outcome.code = "ARGUMENT_REQUIRED"
        ELSE out.got.success /\ out.got.value = Undefined

\* descriptors with a default and choices, of every type and not required; the defaults are a word, a number and the falsy "", 0 and false
Defaults == {Undefined, Str(<<"d">>), Num(5), Str(<<>>), Num(0), Bool(FALSE)}

ChoiceLists == {Undefined, Arr(<<Str(<<"d">>), Str(<<"a", "b", "c">>), Num(5), Num(0)>>)}

DefaultSpecs ==
    {[ArgSpec(type, ArgKeys[1], Undefined, default) EXCEPT !.choices = choices] :
        type \in argTypeNames, default \in Defaults, choices \in ChoiceLists}

\* the value the default resolution is to give: the default in the place of an
\* absent or erroneous type-specific result, that result otherwise
resolved(typed, default) == IF typed = Undefined \/ isError(typed) THEN default ELSE typed

\* C15: for a descriptor that is not required and has a default configured
\* (falsy ones included), an absent or erroneous type-specific result is
\* replaced by the default and a successful one is kept; with choices
\* configured, a resulting value that is no member fails the argument with
\* argument_unavailable_choice.
C15_DefaultResolution ==
    (/\ out.op = "get" /\ out.got.threw = "none" /\ out.typed.threw = "none"
     /\ out.arg.required # Bool(TRUE) /\ out.arg.default # Undefined) =>
        IF out.arg.choices = Undefined
              \/ resolved(out.typed.val, out.arg.default) \in Range(out.arg.choices.a)
        THEN out.got.success /\ out.got.value = resolved(out.typed.val, out.arg.default)
        ELSE ~out.got.success /\ out.got.outcome.code = "ARGUMENT_UNAVAILABLE_CHOICE"

\* the same for the defaults that are truthy
C15_TruthyDefaults ==
    (out.op = "get" /\ Truthy(out.arg.default)) => C15_DefaultResolution

NextArguments ==
    \/ \E cmd \in ArgumentRegistrySpecs : register(cmd)
    \/ \E arg \in IntegerSpecs, value \in IntegerTokens, args \in ArgumentContexts :
          argumentGet(arg, value, args)
    \/ \E arg \in CommandSpecs, value \in Names \cup {Undefined}, args \in ArgumentContexts :
          argumentGet(arg, value, args)
    \/ \E arg \in CustomSpecs \cup DefaultSpecs, value \in WordTokens \cup {Undefined},
          args \in ArgumentContexts :
          argumentGet(arg, value, args)
    \/ hostTurn

SpecArguments == Init /\ [][NextArguments]_vars

(***************************************************************************)
(* Registration without a name, checked under Spec (src/src/index.js) and  *)
(* under SpecRoot (src/index.js).                                          *)
(***************************************************************************)
nameless(cmd) == ~Truthy(findName(cmd))

\* the elements of an array registration that precede its first nameless one
RECURSIVE namedPrefix(_)
namedPrefix(cmds) ==
    IF cmds = <<>> \/ nameless(Head(cmds)) THEN <<>>
    ELSE <<Head(cmds)>> \o namedPrefix(Tail(cmds))

\* the step is a call of register
RegisterStep == pc = "ready" /\ pc' = "done" /\ out'.op = "register"

\* the specification, or an element of the array, has no name
hasNameless(cmdOrCmds) ==
    IF cmdOrCmds.t = "array" THEN \E i \in 1..Len(cmdOrCmds.a) : nameless(cmdOrCmds.a[i])
    ELSE nameless(cmdOrCmds)

\* C16: a registration of a specification with neither name nor command
\* throws MISSING_COMMAND_NAME and leaves every key and record of the registry
\* as it was; in an array registration the registry is the one the elements
\* before the nameless one produced; no other registration throws
C16_NamelessFilesNothing ==
    [][RegisterStep =>
          IF hasNameless(out'.cmd)
          THEN /\ out'.threw = "MISSING_COMMAND_NAME"
               /\ cmdRegistry' = IF out'.cmd.t = "array"
                                 THEN registerEach(cmdRegistry, namedPrefix(out'.cmd.a), 1).registry
                                 ELSE cmdRegistry
          ELSE out'.threw = "none"]_vars

\* a nameless specification that declares an alias was refused on a registry
\* that has commands, and the alias is not filed
C16_Witness ==
    /\ pc = "done" /\ out.op = "register" /\ out.threw = "MISSING_COMMAND_NAME"
    /\ out.cmd.t = "object" /\ out.cmd.aliases = Arr(<<NameSeq[2]>>)
    /\ NameSeq[1] \in Keys /\ NameSeq[2] \notin Keys

\* src/index.js register: a nameless specification throws Error and the
\* registry is as it was
C16_RootNamelessFilesNothing ==
    [][RegisterStep =>
          IF nameless(out'.cmd)
          THEN out'.threw = "Error" /\ cmdRegistry' = cmdRegistry
          ELSE out'.threw = "none"]_vars

C16_RootWitness ==
    /\ pc = "done" /\ out.op = "register" /\ out.threw = "Error"
    /\ NameSeq[1] \in Keys /\ NameSeq[2] \notin Keys

(***************************************************************************)
(* The argument tokens of a parse, checked under SpecRoot (src/index.js)   *)
(* and under SpecDispatch (src/src/index.js, with split as described).     *)
(***************************************************************************)
\* the text of the line after its command token
afterCommand(command) ==
    LET cmd == trim(command)
        n == tokenEnd(cmd, 1, FALSE)
    IN  SubSeq(cmd, n + 1, Len(cmd))

\* the white-space separated words of text, a quoted span being one word
words(text) == split(text, Len(text) + 1)

\* the call was a parse that resolved a command with n >= 1 descriptors, the
\* text after the command token has at least n words, and nothing was thrown
ParsedWithTokens ==
    /\ out.op = "parse" /\ out.resolved # Undefined /\ out.threw = "none"
    /\ Len(out.resolved.arguments.a) >= 1
    /\ Len(words(afterCommand(out.command))) >= Len(out.resolved.arguments.a)

\* the tokens the descriptors were given are those of splitting the text after
\* the command token into n tokens, the n-th being the rest of the text
TokensAbsorbRest ==
    LET n == Len(out.resolved.arguments.a)
        tokens == split(afterCommand(out.command), n)
    IN  /\ Len(out.validated) = n
        /\ \A i \in 1..n : out.validated[i].token = Str(tokens[i])

\* C17: a parse that resolves a command with n >= 1 descriptors, on a line
\* with at least n words after the command token, gives the descriptors exactly
\* n tokens, the n-th holding all the remaining text: no trailing word is
\* dropped
C17_TokensAbsorbRest == ParsedWithTokens => TokensAbsorbRest

\* src/index.js parse on a line with exactly n words after the command token
\* gives each descriptor its word
C17_ExactWords ==
    (ParsedWithTokens
     /\ Len(words(afterCommand(out.command))) = Len(out.resolved.arguments.a)) =>
        TokensAbsorbRest

\* a line with more words than descriptors was parsed
C17_MoreWords ==
    /\ ParsedWithTokens
    /\ Len(words(afterCommand(out.command))) > Len(out.resolved.arguments.a)

(***************************************************************************)
(* What a parse leaves alone, checked under SpecDispatch (src/src/index.js)*)
(* and under SpecRoot (src/index.js).                                      *)
(***************************************************************************)
\* the step is a call of parse
ParseStep == pc = "ready" /\ pc' = "done" /\ out'.op = "parse"

\* C18: a call of parse leaves every key and record of the registry as it was,
\* and the caller's context object after the call is the one that was passed;
\* the object that is returned and handed to the handler is another one
C18_ParseReadOnly ==
    [][ParseStep => cmdRegistry' = cmdRegistry /\ out'.context = out'.pass]_vars

\* a parse validated a descriptor and returned an object that holds its value
\* under a key the caller's context does not have
C18_Witness ==
    /\ pc = "done" /\ out.op = "parse" /\ out.success /\ out.ran
    /\ out.returned # Undefined
    /\ ArgKeys[1] \in DOMAIN out.returned.props
    /\ out.returned.props[ArgKeys[1]] # Undefined
    /\ "send" \in DOMAIN out.pass
    /\ ArgKeys[1] \notin DOMAIN out.pass

\* src/index.js parse leaves the registry and the caller's context as they were
C18_RootParseReadOnly ==
    [][ParseStep => (UNCHANGED cmdRegistry /\ out'.context = out'.pass)]_vars

====
